---- MODULE Spec2Model ----
(***************************************************************************)
(* BitmapPageAllocator (src/src/bitmap.rs): a page-granularity allocator   *)
(* over a bitmap_allocator::BitAlloc bit index space.                      *)
(*                                                                         *)
(* The machine is scaled down: the page size, the maximum alignment, the   *)
(* width of usize and the capacity of the bitmap are small powers of two   *)
(* that keep the ratios the code relies on (MAX_ALIGN_1GB is a multiple of *)
(* PAGE_SIZE, the bitmap holds several MAX_ALIGN_1GB blocks, usize is far  *)
(* wider than any managed address).                                        *)
(***************************************************************************)
EXTENDS Integers, FiniteSets, Sequences, TLC

\* ---------------------------------------------------------------- constants
PAGE_SIZE == 4
MAX_ALIGN_1GB == 8
\* usize arithmetic is modulo 2^USIZE_BITS
USIZE_BITS == 8
\* BitAllocUsed is a cascade of SUB_COUNT sub-allocators of LEAF_CAP bits each
\* (bitmap_allocator: BitAllocCascade16 over BitAlloc16, 16 and 16).
LEAF_CAP == 2
SUB_COUNT == 2

\* ------------------------------------------------------------------- bounds
\* init(start, size) is called with start in 0..MaxStart, size in 0..MaxSize
MaxStart == 9
MaxSize == 17
\* requests ask for 0..MaxNumPages pages
MaxNumPages == 3
\* calls are explored while used_pages is at most MaxSkew pages outside
\* 0..total_pages (above it, or below zero modulo 2^USIZE_BITS)
MaxSkew == 1

WRAP == 2 ^ USIZE_BITS
CAP == LEAF_CAP * SUB_COUNT
NONE == -1

VARIABLES
    base,            \* BitmapPageAllocator::base
    total_pages,     \* BitmapPageAllocator::total_pages
    used_pages,      \* BitmapPageAllocator::used_pages
    inner,           \* BitmapPageAllocator::inner: bit k TRUE = page k is free
    initialized,     \* init has been called
    start_idx,       \* bit index of the first managed page (local of init)
    overflow_checks, \* the build panics on integer overflow (debug) or wraps
    last,            \* the call the caller is looking at: operation,
                     \* arguments, outcome; "idle" between calls
    ledger,          \* the caller keeps a ledger of the pages it holds
    handed           \* the ledger: per page index, in how many runs the
                     \* caller holds it (returned by an allocation, not
                     \* freed since)

vars == <<base, total_pages, used_pages, inner, initialized, start_idx,
          overflow_checks, last, ledger, handed>>

alloc_state == <<base, total_pages, used_pages, inner>>

\* ------------------------------------------------------------ bit arithmetic
RECURSIVE BitAnd(_, _)
BitAnd(x, y) ==
    IF x = 0 \/ y = 0 THEN 0
    ELSE (IF x % 2 = 1 /\ y % 2 = 1 THEN 1 ELSE 0) + 2 * BitAnd(x \div 2, y \div 2)

is_power_of_two(x) == x > 0 /\ BitAnd(x, x - 1) = 0

RECURSIVE trailing_zeros(_)
trailing_zeros(x) ==
    IF x = 0 THEN USIZE_BITS
    ELSE IF x % 2 = 1 THEN 0 ELSE 1 + trailing_zeros(x \div 2)

\* crate::align_down, crate::align_up: pos rounded down / up to a multiple of
\* align (align a power of two)
align_down(pos, align) == pos - (pos % align)
align_up(pos, align) == align_down(pos + align - 1, align)

\* crate::is_aligned: base_addr is a multiple of align
is_aligned(base_addr, align) ==
    IF align = 0 THEN base_addr = 0 ELSE base_addr % align = 0

\* a - b and a + b on usize: with overflow checks an overflow panics
\* ([ok |-> FALSE]), without them the result wraps
usize_sub(a, b) ==
    IF a >= b THEN [ok |-> TRUE, v |-> a - b]
    ELSE IF overflow_checks THEN [ok |-> FALSE, v |-> 0]
    ELSE [ok |-> TRUE, v |-> a - b + WRAP]

usize_add(a, b) ==
    IF a + b < WRAP THEN [ok |-> TRUE, v |-> a + b]
    ELSE IF overflow_checks THEN [ok |-> FALSE, v |-> 0]
    ELSE [ok |-> TRUE, v |-> a + b - WRAP]

\* ------------------------------------------------------- the bit index space
\* bitmap_allocator::BitAlloc as BitmapPageAllocator uses it: a cascade of
\* SUB_COUNT sub-allocators of LEAF_CAP bits; a set bit is a free page.
Bits == 0 .. (CAP - 1)
EmptyBits == [k \in Bits |-> FALSE]

test(bm, key) == bm[key]
is_empty(bm) == \A k \in Bits : ~bm[k]

\* Mark lo..hi-1 free / allocated
insert(bm, lo, hi) == [k \in Bits |-> IF k >= lo /\ k < hi THEN TRUE ELSE bm[k]]
remove(bm, lo, hi) == [k \in Bits |-> IF k >= lo /\ k < hi THEN FALSE ELSE bm[k]]

\* the first free index not less than key
next(bm, key) ==
    LET free == {k \in Bits : k >= key /\ bm[k]}
    IN IF free = {} THEN NONE ELSE CHOOSE k \in free : \A j \in free : k <= j

\* BitAlloc::alloc: the lowest free bit of the lowest non-empty sub-allocator
inner_alloc(bm) ==
    IF is_empty(bm) THEN [idx |-> NONE, bm |-> bm]
    ELSE LET i == next(bm, 0) IN [idx |-> i, bm |-> remove(bm, i, i + 1)]

align_up_log2(x, align_log2) ==
    ((x + 2 ^ align_log2 - 1) \div (2 ^ align_log2)) * (2 ^ align_log2)

\* find_contiguous: scan from offset for size free bits starting at base_
RECURSIVE find_scan(_, _, _, _, _)
find_scan(bm, base_, offset, size, align_log2) ==
    IF offset >= CAP THEN NONE
    ELSE LET nx == next(bm, offset) IN
         IF nx = NONE THEN NONE
         ELSE IF nx # offset
              THEN LET b == (((nx - 1) \div (2 ^ align_log2)) + 1) * (2 ^ align_log2)
                   IN find_scan(bm, b, b, size, align_log2)
              ELSE IF offset + 1 - base_ = size THEN base_
                   ELSE find_scan(bm, base_, offset + 1, size, align_log2)

find_contiguous(bm, size, align_log2) ==
    IF CAP < 2 ^ align_log2 \/ is_empty(bm) THEN NONE
    ELSE LET b == align_up_log2(next(bm, 0), align_log2)
         IN find_scan(bm, b, b, size, align_log2)

RECURSIVE check_scan(_, _, _, _)
check_scan(bm, base_, offset, size) ==
    IF offset >= CAP THEN FALSE
    ELSE IF next(bm, offset) # offset THEN FALSE
         ELSE IF offset + 1 - base_ = size THEN TRUE
              ELSE check_scan(bm, base_, offset + 1, size)

check_contiguous(bm, base_, size, align_log2) ==
    IF CAP < 2 ^ align_log2 \/ is_empty(bm) THEN FALSE
    ELSE IF base_ % (2 ^ align_log2) # 0 THEN FALSE
    ELSE check_scan(bm, base_, base_, size)

\* BitAlloc::alloc_contiguous(base, size, align_log2); hint = NONE is None
alloc_contiguous(bm, hint, size, align_log2) ==
    IF hint # NONE
    THEN IF check_contiguous(bm, hint, size, align_log2)
         THEN [idx |-> hint, bm |-> remove(bm, hint, hint + size)]
         ELSE [idx |-> NONE, bm |-> bm]
    ELSE LET b == find_contiguous(bm, size, align_log2)
         IN IF b = NONE THEN [idx |-> NONE, bm |-> bm]
            ELSE [idx |-> b, bm |-> remove(bm, b, b + size)]

\* BitAlloc::dealloc(key): the bit is set free whatever it was; the result
\* tells whether it was allocated. A key beyond the capacity indexes past
\* the sub-allocator array: panic.
inner_dealloc(bm, key) ==
    IF key >= CAP THEN [panic |-> TRUE, ok |-> FALSE, bm |-> bm]
    ELSE [panic |-> FALSE, ok |-> ~test(bm, key), bm |-> insert(bm, key, key + 1)]

\* BitAlloc16::dealloc_contiguous on sub-allocator i: frees begin..end_-1 of
\* it only if every bit of that part is allocated
leaf_dealloc_contiguous(bm, i, begin, end_) ==
    LET lo == i * LEAF_CAP + begin
        hi == i * LEAF_CAP + end_
    IN IF \A k \in Bits : (k >= lo /\ k < hi) => ~bm[k]
       THEN [ok |-> TRUE, bm |-> insert(bm, lo, hi)]
       ELSE [ok |-> FALSE, bm |-> bm]

\* BitAllocCascade16::dealloc_contiguous: the loop over the sub-allocators
\* the run touches; `success && ...` stops calling them after a failure
RECURSIVE cascade_dealloc_loop(_, _, _, _, _, _)
cascade_dealloc_loop(bm, i, iLast, start, end_, success) ==
    IF i > iLast THEN [ok |-> success, bm |-> bm]
    ELSE LET begin == IF start \div LEAF_CAP = i THEN start % LEAF_CAP ELSE 0
             e == IF end_ \div LEAF_CAP = i THEN end_ % LEAF_CAP ELSE LEAF_CAP
             r == IF success
                  THEN leaf_dealloc_contiguous(bm, i, begin, e)
                  ELSE [ok |-> FALSE, bm |-> bm]
         IN cascade_dealloc_loop(r.bm, i + 1, iLast, start, end_, r.ok)

dealloc_contiguous(bm, base_, size) ==
    IF base_ + size > CAP THEN [panic |-> FALSE, ok |-> FALSE, bm |-> bm]
    ELSE LET r == cascade_dealloc_loop(bm, base_ \div LEAF_CAP,
                                       (base_ + size - 1) \div LEAF_CAP,
                                       base_, base_ + size, TRUE)
         IN [panic |-> FALSE, ok |-> r.ok, bm |-> r.bm]

\* ------------------------------------------------------------------ the API
\* The operations as functions of the mutable fields st = [used, bm]
\* (used_pages, inner); base and total_pages are only written by init.
Outcome(res, val, used, bm) == [res |-> res, val |-> val, used |-> used, bm |-> bm]
Failed(st, res) == Outcome(res, 0, st.used, st.bm)

\* PageAllocator::available_pages: total_pages - used_pages on usize
available_pages(st) == usize_sub(total_pages, st.used)

\* an allocation that is not added to used_pages
Allocated_uncounted(st, r, num_pages) ==
    IF r.idx = NONE THEN Failed(st, "NoMemory")
    ELSE Outcome("Ok", r.idx * PAGE_SIZE + base, st.used, r.bm)

\* an allocation that returns the run without taking its bits
Allocated_keeps_bits(st, r, num_pages) ==
    IF r.idx = NONE THEN Failed(st, "NoMemory")
    ELSE LET u == usize_add(st.used, num_pages)
         IN IF ~u.ok THEN Failed(st, "panic")
            ELSE Outcome("Ok", r.idx * PAGE_SIZE + base, u.v, st.bm)

\* .map(|idx| idx * PAGE_SIZE + self.base).ok_or(NoMemory)
\* .inspect(|_| self.used_pages += num_pages); the bits are taken before
\* the addition
Allocated(st, r, num_pages) ==
    IF r.idx = NONE THEN Failed(st, "NoMemory")
    ELSE LET u == usize_add(st.used, num_pages)
         IN IF ~u.ok THEN Outcome("panic", 0, st.used, r.bm)
            ELSE Outcome("Ok", r.idx * PAGE_SIZE + base, u.v, r.bm)

\* a capacity check against the size of the range instead of what is left
exceeds_total(st, num_pages) == num_pages > total_pages

\* num_pages > self.available_pages()
exceeds_available(st, num_pages) == num_pages > available_pages(st).v

alloc_pages_impl(st, num_pages, align_pow2) ==
    IF align_pow2 > MAX_ALIGN_1GB \/ ~is_aligned(align_pow2, PAGE_SIZE)
    THEN Failed(st, "InvalidParam")
    ELSE IF ~is_power_of_two(align_pow2 \div PAGE_SIZE)
    THEN Failed(st, "InvalidParam")
    ELSE IF ~available_pages(st).ok
    THEN Failed(st, "panic")
    ELSE IF exceeds_available(st, num_pages)
    THEN Failed(st, "NoMemory")
    ELSE LET align_log2 == trailing_zeros(align_pow2 \div PAGE_SIZE)
         IN IF num_pages = 1 THEN Allocated(st, inner_alloc(st.bm), num_pages)
            ELSE IF num_pages > 1
            THEN Allocated(st, alloc_contiguous(st.bm, NONE, num_pages, align_log2),
                           num_pages)
            ELSE Failed(st, "InvalidParam")

alloc_pages_at_impl(st, addr, num_pages, align_pow2) ==
    IF align_pow2 > MAX_ALIGN_1GB \/ ~is_aligned(align_pow2, PAGE_SIZE)
    THEN Failed(st, "InvalidParam")
    ELSE IF ~is_aligned(addr, align_pow2)
    THEN Failed(st, "InvalidParam")
    ELSE IF ~is_power_of_two(align_pow2 \div PAGE_SIZE)
    THEN Failed(st, "InvalidParam")
    ELSE LET align_log2 == trailing_zeros(align_pow2 \div PAGE_SIZE)
             d == usize_sub(addr, base)
         IN IF ~d.ok THEN Failed(st, "panic")
            ELSE LET idx == d.v \div PAGE_SIZE
                 IN Allocated(st, alloc_contiguous(st.bm, idx, num_pages, align_log2),
                              num_pages)

\* no check of pos
pos_assertion_off(pos) == TRUE

\* assert!(is_aligned(pos, PAGE_SIZE), "pos must be aligned to PAGE_SIZE");
\* when it fails the call ends with outcome "assert", a panic with that
\* message
pos_assertion(pos) == is_aligned(pos, PAGE_SIZE)

\* a decrement by one page whatever the length of the run
used_after_dealloc_one(st, num_pages) == usize_sub(st.used, 1)

\* self.used_pages -= num_pages
used_after_dealloc(st, num_pages) == usize_sub(st.used, num_pages)

\* a deallocation that frees the first page of the run whatever its length
dealloc_pages_first_only(st, pos, num_pages) ==
    IF ~pos_assertion(pos) THEN Failed(st, "assert")
    ELSE IF num_pages = 0 THEN Failed(st, "done")
    ELSE LET d == usize_sub(pos, base)
         IN IF ~d.ok THEN Failed(st, "panic")
            ELSE LET r == inner_dealloc(st.bm, d.v \div PAGE_SIZE)
                     u == used_after_dealloc(st, num_pages)
                 IN IF r.panic THEN Failed(st, "panic")
                    ELSE IF ~r.ok THEN Outcome("done", 0, st.used, r.bm)
                    ELSE IF ~u.ok THEN Outcome("panic", 0, st.used, r.bm)
                    ELSE Outcome("done", 0, u.v, r.bm)

dealloc_pages_impl(st, pos, num_pages) ==
    IF ~pos_assertion(pos) THEN Failed(st, "assert")
    ELSE IF num_pages = 0 THEN Failed(st, "done")
    ELSE LET d == usize_sub(pos, base)
         IN IF ~d.ok THEN Failed(st, "panic")
            ELSE LET idx == d.v \div PAGE_SIZE
                     r == IF num_pages = 1 THEN inner_dealloc(st.bm, idx)
                          ELSE dealloc_contiguous(st.bm, idx, num_pages)
                 IN IF r.panic THEN Failed(st, "panic")
                    ELSE IF ~r.ok THEN Outcome("done", 0, st.used, r.bm)
                    ELSE LET u == used_after_dealloc(st, num_pages)
                         IN IF ~u.ok THEN Outcome("panic", 0, st.used, r.bm)
                            ELSE Outcome("done", 0, u.v, r.bm)

\* ------------------------------------------------------------------ inputs
Starts == 0 .. MaxStart
Sizes == 0 .. MaxSize
NumPages == 0 .. MaxNumPages
\* zero, not a multiple of PAGE_SIZE, the powers of two up to MAX_ALIGN_1GB,
\* a multiple of PAGE_SIZE that is no power of two, and 2 * MAX_ALIGN_1GB
Aligns == {0, PAGE_SIZE \div 2, PAGE_SIZE, 2 * PAGE_SIZE, 3 * PAGE_SIZE,
           2 * MAX_ALIGN_1GB}
\* page addresses from 0 to one page past the bitmap of the highest base, and
\* one address that is not page-aligned
PageAddrs == {p * PAGE_SIZE : p \in 0 .. (((MaxStart + PAGE_SIZE - 1) \div PAGE_SIZE) + CAP)}
Addrs == PageAddrs \cup {PAGE_SIZE + PAGE_SIZE \div 2}

Cur == [used |-> used_pages, bm |-> inner]

\* the page indices (relative to base) of the run of n pages at addr
Run(addr, n) == {((addr - base) \div PAGE_SIZE) + j : j \in 0 .. (n - 1)}

Idle == [op |-> "idle", addr |-> 0, num |-> 0, align |-> 0,
         res |-> "done", val |-> 0, used0 |-> 0]

Call(op, addr, num, align, res, val) ==
    [op |-> op, addr |-> addr, num |-> num, align |-> align,
     res |-> res, val |-> val, used0 |-> used_pages]

\* a call is made when the caller is done with the previous one, the
\* allocator has not panicked, and used_pages is within MaxSkew of
\* 0..total_pages
Callable ==
    /\ last.op = "idle"
    /\ \/ used_pages <= total_pages + MaxSkew
       \/ used_pages >= WRAP - MaxSkew

\* ----------------------------------------------------------------- actions
Init ==
    /\ base = 0
    /\ total_pages = 0
    /\ used_pages = 0
    /\ inner = EmptyBits
    /\ initialized = FALSE
    /\ start_idx = 0
    /\ overflow_checks \in BOOLEAN
    /\ last = Idle
    /\ ledger = FALSE
    /\ handed = [k \in Bits |-> 0]

\* a range that starts at the page containing start instead of the next one
init_range_down(start, size) ==
    LET end_ == align_down(start + size, PAGE_SIZE)
        start_ == align_down(start, PAGE_SIZE)
        b == align_down(start_, MAX_ALIGN_1GB)
    IN [end_ |-> end_, start_ |-> start_,
        total |-> (end_ - start_) \div PAGE_SIZE,
        base |-> b, idx |-> (start_ - b) \div PAGE_SIZE]

\* a base rounded down to half of MAX_ALIGN_1GB
init_range_half_align(start, size) ==
    LET end_ == align_down(start + size, PAGE_SIZE)
        start_ == align_up(start, PAGE_SIZE)
        b == align_down(start_, MAX_ALIGN_1GB \div 2)
    IN [end_ |-> end_, start_ |-> start_,
        total |-> (end_ - start_) \div PAGE_SIZE,
        base |-> b, idx |-> (start_ - b) \div PAGE_SIZE]

\* a base that is the first page itself, not rounded down to MAX_ALIGN_1GB
init_range_page_base(start, size) ==
    LET end_ == align_down(start + size, PAGE_SIZE)
        start_ == align_up(start, PAGE_SIZE)
    IN [end_ |-> end_, start_ |-> start_,
        total |-> (end_ - start_) \div PAGE_SIZE,
        base |-> start_, idx |-> 0]

\* the locals of init: the page range, its length, the base and the first bit
init_range(start, size) ==
    LET end_ == align_down(start + size, PAGE_SIZE)
        start_ == align_up(start, PAGE_SIZE)
        b == align_down(start_, MAX_ALIGN_1GB)
    IN [end_ |-> end_, start_ |-> start_,
        total |-> (end_ - start_) \div PAGE_SIZE,
        base |-> b, idx |-> (start_ - b) \div PAGE_SIZE]

\* called once, with a range that is not empty-negative (end - start does not
\* overflow) and fits the bitmap
init(start, size) ==
    LET r == init_range(start, size)
    IN /\ ~initialized
       /\ Callable
       /\ r.end_ >= r.start_
       /\ r.idx + r.total <= CAP
       /\ total_pages' = r.total
       /\ base' = r.base
       /\ inner' = insert(inner, r.idx, r.idx + r.total)
       /\ start_idx' = r.idx
       /\ initialized' = TRUE
       /\ last' = Call("init", start, size, 0, "done", 0)
       /\ UNCHANGED <<used_pages, overflow_checks, ledger, handed>>

\* a second range accepted and counted
add_memory_accepts(start, size) ==
    /\ Callable
    /\ total_pages' = IF total_pages + size \div PAGE_SIZE <= CAP
                      THEN total_pages + size \div PAGE_SIZE
                      ELSE total_pages
    /\ last' = Call("add_memory", start, size, 0, "Ok", 0)
    /\ UNCHANGED <<base, used_pages, inner, initialized, start_idx,
                   overflow_checks, ledger, handed>>

\* Err(AllocError::NoMemory) // unsupported
add_memory(start, size) ==
    /\ Callable
    /\ last' = Call("add_memory", start, size, 0, "NoMemory", 0)
    /\ UNCHANGED <<base, total_pages, used_pages, inner, initialized, start_idx,
                   overflow_checks, ledger, handed>>

\* the caller's view of a successful allocation: it now holds the num pages
\* at the returned address (counted up to 2, which is one time too many)
handed_out(h, r, num) ==
    IF r.res # "Ok" THEN h
    ELSE [k \in Bits |->
            IF k \in Run(r.val, num) /\ h[k] < 2 THEN h[k] + 1 ELSE h[k]]

\* the caller's view of dealloc_pages(pos, num): it no longer holds the pages
\* of the run that the call has freed
taken_back(h, r, pos, num) ==
    [k \in Bits |-> IF k \in Run(pos, num) /\ r.bm[k] THEN 0 ELSE h[k]]

Apply(op, addr, num, align, r, h) ==
    /\ used_pages' = r.used
    /\ inner' = r.bm
    /\ handed' = IF ledger THEN h ELSE handed
    /\ last' = Call(op, addr, num, align, r.res, r.val)
    /\ UNCHANGED <<base, total_pages, initialized, start_idx, overflow_checks,
                   ledger>>

alloc_pages(num_pages, align_pow2) ==
    /\ initialized
    /\ Callable
    /\ LET r == alloc_pages_impl(Cur, num_pages, align_pow2)
       IN Apply("alloc_pages", 0, num_pages, align_pow2, r,
                handed_out(handed, r, num_pages))

alloc_pages_at(addr, num_pages, align_pow2) ==
    /\ initialized
    /\ Callable
    /\ LET r == alloc_pages_at_impl(Cur, addr, num_pages, align_pow2)
       IN Apply("alloc_pages_at", addr, num_pages, align_pow2, r,
                handed_out(handed, r, num_pages))

dealloc_pages(pos, num_pages) ==
    /\ initialized
    /\ Callable
    /\ LET r == dealloc_pages_impl(Cur, pos, num_pages)
       IN Apply("dealloc_pages", pos, num_pages, 0, r,
                taken_back(handed, r, pos, num_pages))

\* alloc_pages(num_pages, align_pow2) and, when it succeeds with addr,
\* dealloc_pages(addr, num_pages) right after it
alloc_then_dealloc(num_pages, align_pow2) ==
    LET a == alloc_pages_impl(Cur, num_pages, align_pow2)
        d == dealloc_pages_impl([used |-> a.used, bm |-> a.bm], a.val, num_pages)
    IN /\ initialized
       /\ Callable
       /\ a.res = "Ok"
       /\ Apply("alloc_then_dealloc", a.val, num_pages, align_pow2, d,
                taken_back(handed_out(handed, a, num_pages), d, a.val, num_pages))

\* alloc_pages(num_pages, align_pow2), dealloc_pages of the returned run, and
\* alloc_pages(num_pages, align_pow2) again; addr records the first address
alloc_dealloc_alloc(num_pages, align_pow2) ==
    LET a == alloc_pages_impl(Cur, num_pages, align_pow2)
        d == dealloc_pages_impl([used |-> a.used, bm |-> a.bm], a.val, num_pages)
        b == alloc_pages_impl([used |-> d.used, bm |-> d.bm], num_pages, align_pow2)
    IN /\ initialized
       /\ Callable
       /\ a.res = "Ok"
       /\ d.res = "done"
       /\ Apply("alloc_dealloc_alloc", a.val, num_pages, align_pow2, b,
                handed_out(taken_back(handed_out(handed, a, num_pages),
                                      d, a.val, num_pages),
                           b, num_pages))

\* the caller is done with the outcome of the last call; a panic ends the run
return ==
    /\ last.op # "idle"
    /\ last.res \notin {"panic", "assert"}
    /\ last' = Idle
    /\ UNCHANGED <<base, total_pages, used_pages, inner, initialized, start_idx,
                   overflow_checks, ledger, handed>>

Next ==
    \/ \E s \in Starts, z \in Sizes : init(s, z)
    \/ \E s \in {0, PAGE_SIZE + 1}, z \in {0, PAGE_SIZE} : add_memory(s, z)
    \/ \E n \in NumPages, a \in Aligns : alloc_pages(n, a)
    \/ \E p \in Addrs, n \in NumPages, a \in Aligns : alloc_pages_at(p, n, a)
    \/ \E p \in Addrs, n \in NumPages : dealloc_pages(p, n)
    \/ \E n \in NumPages, a \in Aligns : alloc_then_dealloc(n, a)
    \/ \E n \in NumPages, a \in Aligns : alloc_dealloc_alloc(n, a)
    \/ return

Spec == Init /\ [][Next]_vars

\* the same allocator with a caller that keeps the ledger
InitLedger ==
    /\ base = 0
    /\ total_pages = 0
    /\ used_pages = 0
    /\ inner = EmptyBits
    /\ initialized = FALSE
    /\ start_idx = 0
    /\ overflow_checks \in BOOLEAN
    /\ last = Idle
    /\ ledger = TRUE
    /\ handed = [k \in Bits |-> 0]

SpecLedger == InitLedger /\ [][Next]_vars

TypeOK ==
    /\ base \in 0 .. (WRAP - 1)
    /\ total_pages \in 0 .. CAP
    /\ used_pages \in 0 .. (WRAP - 1)
    /\ inner \in [Bits -> BOOLEAN]
    /\ ledger \in BOOLEAN
    /\ handed \in [Bits -> 0 .. 2]

\* ------------------------------------------------------------- vocabulary
\* a valid alignment: PAGE_SIZE * 2^k, at most MAX_ALIGN_1GB
ValidAlign(a) ==
    /\ a <= MAX_ALIGN_1GB
    /\ \E k \in 0 .. USIZE_BITS : a = PAGE_SIZE * 2 ^ k

\* the bit indices of the managed range
Managed == {k \in Bits : k >= start_idx /\ k < start_idx + total_pages}

Returned ==
    /\ initialized
    /\ last.op \in {"alloc_pages", "alloc_pages_at"}
    /\ last.res = "Ok"

\* ------------------------------------------------------------------ claims

\* C1: a successful alloc_pages(num_pages, align) with num_pages >= 1 and a
\* valid align returns an address that is a multiple of align.
C1_ReturnedAddressAligned ==
    (/\ last.op = "alloc_pages"
     /\ last.res = "Ok"
     /\ last.num >= 1
     /\ ValidAlign(last.align))
    => last.val % last.align = 0

\* C2: after init, used_pages <= total_pages in every state, so that
\* available_pages() does not underflow and adds up with used_pages() to
\* total_pages().
C2_UsedWithinTotal ==
    initialized =>
        /\ used_pages <= total_pages
        /\ available_pages(Cur).ok
        /\ available_pages(Cur).v + used_pages = total_pages

\* C3: a successful alloc_pages(n, a) followed at once by dealloc_pages of
\* the returned run leaves used_pages and available_pages as they were
\* before the allocation.
C3_AllocDeallocRestores ==
    last.op = "alloc_then_dealloc" =>
        /\ last.res = "done"
        /\ used_pages = last.used0
        /\ available_pages(Cur) = usize_sub(total_pages, last.used0)

C3_Witness ==
    /\ last.op = "alloc_then_dealloc"
    /\ last.res = "done"
    /\ last.num > 1
    /\ last.used0 > 0
    /\ used_pages = last.used0

C5_InvalidParamAlways ==
    [][(/\ last'.op = "alloc_pages"
        /\ (~ValidAlign(last'.align) \/ last'.num = 0))
       => (last'.res = "InvalidParam" /\ UNCHANGED alloc_state)]_vars

\* C6: alloc_pages_at(addr, num_pages, align) returns InvalidParam without a
\* state change when align is invalid, num_pages is 0 or addr is not a
\* multiple of align, and otherwise NoMemory without a state change when
\* num_pages > available_pages().
C6_AllocAtValidation ==
    [][last'.op = "alloc_pages_at" =>
        LET bad == \/ ~ValidAlign(last'.align)
                   \/ last'.num = 0
                   \/ last'.addr % last'.align # 0
        IN /\ bad => (last'.res = "InvalidParam" /\ UNCHANGED alloc_state)
           /\ (~bad /\ available_pages(Cur).ok
                    /\ last'.num > available_pages(Cur).v)
              => (last'.res = "NoMemory" /\ UNCHANGED alloc_state)]_vars

\* C7: a validly parameterized alloc_pages_at(addr, num_pages, align) whose
\* run has a page that is already allocated or that lies outside the managed
\* range (below base and in the gap above base included) returns NoMemory and
\* leaves used_pages and the bitmap unchanged.
C7_AllocAtOutsideOrTaken ==
    [][(/\ last'.op = "alloc_pages_at"
        /\ ValidAlign(last'.align)
        /\ last'.num >= 1
        /\ last'.addr % last'.align = 0
        /\ \E k \in Run(last'.addr, last'.num) : k \notin Managed \/ ~inner[k])
       => (last'.res = "NoMemory" /\ UNCHANGED <<used_pages, inner>>)]_vars

\* C8: dealloc_pages(addr, num_pages) takes num_pages off used_pages only
\* when every page of the run was allocated; when a page of the run is
\* already free, used_pages and the bitmap stay as they are.
C8_DeallocAllOrNothing ==
    [][last'.op = "dealloc_pages" =>
        LET anyFree == \E k \in Run(last'.addr, last'.num) \cap Bits : inner[k]
        IN /\ anyFree => UNCHANGED <<used_pages, inner>>
           /\ used_pages' # used_pages =>
                (~anyFree /\ used_pages' = (used_pages - last'.num) % WRAP)]_vars

\* C9: pages outside the managed range are never free in the bitmap and
\* never part of a run returned by a successful allocation.
C9_OutsideNeverFree ==
    initialized =>
        /\ \A k \in Bits : inner[k] => k \in Managed
        /\ Returned => Run(last.val, last.num) \subseteq Managed

\* C10: after init(start, size) with align_down(start + size) >=
\* align_up(start): total_pages is the number of whole pages between them,
\* used_pages is 0, and exactly the bits of those pages, counted from base,
\* are free.
C10_InitPostcondition ==
    last.op = "init" =>
        LET up == ((last.addr + PAGE_SIZE - 1) \div PAGE_SIZE) * PAGE_SIZE
            down == ((last.addr + last.num) \div PAGE_SIZE) * PAGE_SIZE
            first == (up - base) \div PAGE_SIZE
        IN /\ down >= up
           /\ total_pages = (down - up) \div PAGE_SIZE
           /\ used_pages = 0
           /\ \A k \in Bits : inner[k] <=> (k >= first /\ k < first + total_pages)

C10_Witness ==
    /\ last.op = "init"
    /\ last.addr % PAGE_SIZE # 0
    /\ (last.addr + last.num) % PAGE_SIZE # 0
    /\ base > 0
    /\ start_idx > 0
    /\ total_pages >= 2
    /\ inner[start_idx]

\* C11: init sets base to align_up(start, PAGE_SIZE) rounded down to a
\* multiple of MAX_ALIGN_1GB, and once init has run no call of alloc_pages,
\* alloc_pages_at, dealloc_pages or add_memory, successful or failing, changes
\* base or total_pages.
C11_BaseFixedAndAligned ==
    [][/\ last'.op = "init" =>
            LET up == ((last'.addr + PAGE_SIZE - 1) \div PAGE_SIZE) * PAGE_SIZE
            IN /\ base' = up - (up % MAX_ALIGN_1GB)
               /\ base' % MAX_ALIGN_1GB = 0
       /\ initialized => (base' = base /\ total_pages' = total_pages)]_vars

C11_Witness ==
    /\ initialized
    /\ base > 0
    /\ start_idx > 0
    /\ total_pages >= 2
    /\ last.op = "dealloc_pages"
    /\ last.res = "done"
    /\ used_pages < last.used0

\* C12: add_memory(start, size) fails for every pair of arguments and in
\* every state, before init and after it, with the error that stands for
\* "adding capacity is not supported" (AllocError::NoMemory), and leaves
\* base, total_pages, used_pages and the bitmap as they were.
C12_AddMemoryFails ==
    [][last'.op = "add_memory" =>
        /\ last'.res = "NoMemory"
        /\ UNCHANGED alloc_state]_vars

C12_Witness ==
    /\ last.op = "add_memory"
    /\ last.res = "NoMemory"
    /\ last.num > 0
    /\ initialized
    /\ used_pages > 0
    /\ used_pages < total_pages

\* C13: no page is handed out twice: a page that a successful alloc_pages
\* or alloc_pages_at has returned is in no run returned by another
\* allocation until dealloc_pages has freed it, so the runs of any two
\* outstanding allocations are disjoint.
C13_NoPageHandedOutTwice ==
    ledger =>
    /\ \A k \in Bits : handed[k] <= 1
    /\ \A k \in Bits : handed[k] = 1 => ~inner[k]
    /\ Returned => \A k \in Run(last.val, last.num) : k \in Bits /\ handed[k] = 1

C13_Witness ==
    /\ ledger
    /\ Returned
    /\ last.op = "alloc_pages"
    /\ last.used0 > 0
    /\ Cardinality({k \in Bits : handed[k] = 1}) > last.num
    /\ \E k \in Managed : inner[k]

\* C14: in every state reached by alloc_pages, alloc_pages_at and
\* dealloc_pages calls whose runs lie inside the managed range (a
\* deallocation may name a sub-run or a run that is not allocated),
\* used_pages is the number of managed pages that are not free, and a
\* successful allocation of n pages turns exactly n free pages into used
\* ones and adds n to used_pages. Stated as the step that keeps it: from a
\* state where the count is right and no page outside the range is free,
\* such a call leads to a state where the count is right.
C14_AccountingMatchesBitmap ==
    [][(/\ initialized
        /\ used_pages = Cardinality({k \in Managed : ~inner[k]})
        /\ \A k \in Bits : inner[k] => k \in Managed
        /\ \/ last'.op = "alloc_pages"
           \/ /\ last'.op \in {"alloc_pages_at", "dealloc_pages"}
              /\ Run(last'.addr, last'.num) \subseteq Managed)
       => /\ used_pages' = Cardinality({k \in Managed : ~inner'[k]})
          /\ last'.res = "Ok" =>
                /\ used_pages' = used_pages + last'.num
                /\ Cardinality({k \in Bits : inner[k] /\ ~inner'[k]}) = last'.num
                /\ \A k \in Bits : inner'[k] => inner[k]]_vars

\* C15: with the base set by init, for every valid alignment A and every bit
\* index i, the address base + i * PAGE_SIZE is a multiple of A exactly when
\* i is a multiple of A / PAGE_SIZE, that is when i has at least
\* log2(A / PAGE_SIZE) trailing zero bits.
C15_IndexAlignmentIsAddressAlignment ==
    initialized =>
        \A A \in {a \in Aligns : ValidAlign(a)}, i \in 0 .. (2 * CAP) :
            /\ ((base + i * PAGE_SIZE) % A = 0) <=> (i % (A \div PAGE_SIZE) = 0)
            /\ (i % (A \div PAGE_SIZE) = 0)
                 <=> (trailing_zeros(i) >= trailing_zeros(A \div PAGE_SIZE))

C15_Witness ==
    /\ initialized
    /\ base > 0
    /\ start_idx > 0
    /\ last.op = "alloc_pages"
    /\ last.res = "Ok"
    /\ last.num > 1
    /\ last.align = MAX_ALIGN_1GB
    /\ last.val > base

C17_ReallocSameAddress ==
    last.op = "alloc_dealloc_alloc" =>
        /\ last.res = "Ok"
        /\ last.val = last.addr
        /\ used_pages = (last.used0 + last.num) % WRAP

C17_Witness ==
    /\ last.op = "alloc_dealloc_alloc"
    /\ last.res = "Ok"
    /\ last.num > 1
    /\ last.align = MAX_ALIGN_1GB
    /\ last.used0 > 0
    /\ last.val = last.addr
    /\ last.addr > base

\* C18: alloc_pages(num_pages, align) with valid parameters succeeds
\* whenever the managed range has num_pages contiguous free pages starting
\* at a multiple of align; it returns NoMemory only when there is no such
\* run, and then changes no state.
C18_NoSpuriousExhaustion ==
    [][(/\ last'.op = "alloc_pages"
        /\ ValidAlign(last'.align)
        /\ last'.num >= 1)
       => LET fits == \E k \in Managed :
                         /\ (base + k * PAGE_SIZE) % last'.align = 0
                         /\ \A j \in 0 .. (last'.num - 1) :
                               k + j \in Managed /\ inner[k + j]
          IN /\ fits => last'.res = "Ok"
             /\ last'.res = "NoMemory" => (~fits /\ UNCHANGED alloc_state)]_vars

\* C19: dealloc_pages(addr, num_pages) with addr not a multiple of PAGE_SIZE
\* ends in the failed assertion, before the bitmap or used_pages is touched;
\* with addr a multiple of PAGE_SIZE the assertion does not fire.
C19_DeallocAssertsPageAligned ==
    [][last'.op = "dealloc_pages" =>
        /\ last'.addr % PAGE_SIZE # 0 =>
              (last'.res = "assert" /\ UNCHANGED alloc_state)
        /\ last'.addr % PAGE_SIZE = 0 => last'.res # "assert"]_vars

C19_Witness ==
    /\ last.op = "dealloc_pages"
    /\ last.addr % PAGE_SIZE # 0
    /\ last.num >= 1
    /\ last.res = "assert"
    /\ \E k \in Bits : k = (last.addr - base) \div PAGE_SIZE /\ ~inner[k]
    /\ used_pages > 0
    /\ used_pages = last.used0

====
